---- MODULE Spec2Model ----
(***************************************************************************)
(* Model of lstchain/onsite.py: the calibration-file lookups               *)
(* (find_pedestal_file, find_time_calibration_file) over the               *)
(* <base>/monitoring/PixelCalibration/LevelA tree, and the "pro" symlink   *)
(* promotion (create_pro_symlink); and of the onsite scripts               *)
(* onsite_create_drs4_pedestal_file and onsite_create_drs4_time_file over  *)
(* <base>/R0 and <base>/monitoring.                                        *)
(*                                                                         *)
(* Strings are sequences of one-character strings, so that Python's        *)
(* lexicographic ordering of path components, the {run:05d} formatting and *)
(* the parsing of a run number are computed, not assumed.                  *)
(***************************************************************************)
EXTENDS Integers, Sequences, FiniteSets, TLC

VARIABLES
    timeTree,   \* files below .../LevelA/drs4_time_sampling_from_FF
    pedTree,    \* files below .../LevelA/drs4_baseline (the scripts: .../PixelCalibration/drs4_baseline)
    outcome,    \* the last lookup call: its arguments and what it returned or raised
    dirs,       \* the existing output directories (parent, name)
    links,      \* per parent directory: the text of its "pro" symlink, or NoLink
    lastCall,   \* the last create_pro_symlink call: its targets and filesystem operations
    inv,        \* the two racing create_pro_symlink invocations (SpecRace)
    lastWriter, \* target of the last successful symlink_to of a racing invocation
    r0Tree,     \* files below <base>/R0 : <date>/<name>
    summaries,  \* the dates with a <base>/monitoring/RunSummary/RunSummary_<date>.ecsv
    configs,    \* the existing configuration files
    stageDirs,  \* the directories the onsite scripts have made
    logTree,    \* files in the log directories below .../drs4_baseline : <date>/<pro>/log/<name>
    ped,        \* the invocations of onsite_create_drs4_pedestal_file: where each is in main
    tim,        \* the invocation of onsite_create_drs4_time_file: where it is in main
    started     \* how many times an onsite script has been started

\* The state of the onsite scripts (SpecPipeline).
stageVars == <<r0Tree, summaries, configs, stageDirs, logTree, ped, tim, started>>

vars == <<timeTree, pedTree, outcome, dirs, links, lastCall, inv, lastWriter, stageVars>>

\* Python's None, among strings, run numbers, date names and paths.
None == "None"

NoRun == -1

NoDate == <<>>

NoPath == [date |-> <<>>, pro |-> <<>>, name |-> <<>>]

(***************************************************************************)
(* Bounds.                                                                 *)
(***************************************************************************)
\* Greatest number of files in the tree a lookup is run against.
MaxFiles == 3

\* Greatest number of invocations of the onsite scripts in a behaviour.
MaxStarts == 3

(***************************************************************************)
(* Strings.                                                                *)
(***************************************************************************)
\* The characters used in the file names, in ASCII order.
Alphabet ==
    << "-", ".", "0", "1", "2", "3", "4", "5", "6", "7", "8", "9",
       "L", "R", "S", "T", "_",
       "a", "b", "c", "d", "e", "f", "g", "h", "i", "l", "m", "n", "o", "p",
       "r", "s", "t", "u", "v", "x", "z" >>

Ord(c) == CHOOSE i \in 1..Len(Alphabet) : Alphabet[i] = c

DigitChars == <<"0", "1", "2", "3", "4", "5", "6", "7", "8", "9">>

IsDigit(c) == \E i \in 1..10 : DigitChars[i] = c

DigitValue(c) == (CHOOSE i \in 1..10 : DigitChars[i] = c) - 1

\* Python's str < str : lexicographic by code point, a proper prefix first.
RECURSIVE StrLess(_, _)
StrLess(a, b) ==
    IF a = <<>> THEN b # <<>>
    ELSE IF b = <<>> THEN FALSE
    ELSE IF Head(a) = Head(b) THEN StrLess(Tail(a), Tail(b))
    ELSE Ord(Head(a)) < Ord(Head(b))

\* str(n) for n >= 0.
RECURSIVE Decimal(_)
Decimal(n) ==
    IF n < 10 THEN <<DigitChars[n + 1]>>
    ELSE Decimal(n \div 10) \o <<DigitChars[(n % 10) + 1]>>

RECURSIVE ZeroPad(_, _)
ZeroPad(s, width) == IF Len(s) >= width THEN s ELSE ZeroPad(<<"0">> \o s, width)

\* The width of the run field in f'{run:05d}'.
RunWidth == 5

\* f'{run:05d}' : at least five digits, more when the number needs them.
FormatRun(run) == ZeroPad(Decimal(run), RunWidth)

\* int(s) for a string of digits.
RECURSIVE ToInt(_)
ToInt(s) ==
    IF s = <<>> THEN 0
    ELSE 10 * ToInt(SubSeq(s, 1, Len(s) - 1)) + DigitValue(s[Len(s)])

(***************************************************************************)
(* Paths.  A file of a calibration tree is its path below the tree's root, *)
(* <date>/<pro>/<name>, kept as its three components.                      *)
(***************************************************************************)
Chars_time_calibration ==
    <<"t","i","m","e","_","c","a","l","i","b","r","a","t","i","o","n">>

Chars_drs4_pedestal ==
    <<"d","r","s","4","_","p","e","d","e","s","t","a","l">>

Chars_Run == <<".", "R", "u", "n">>

Chars_0000 == <<".", "0", "0", "0", "0">>

Chars_h5 == <<".", "h", "5">>

Chars_fits == <<".", "f", "i", "t", "s">>

PathOf(date, pro, name) == [date |-> date, pro |-> pro, name |-> name]

\* PurePosixPath.__lt__ : the paths' parts compared as lists of strings.
\* The parts above the date directory are the same for all files of a tree.
PathLess(p, q) ==
    IF p.date # q.date THEN StrLess(p.date, q.date)
    ELSE IF p.pro # q.pro THEN StrLess(p.pro, q.pro)
    ELSE StrLess(p.name, q.name)

\* sorted(...) of a set of paths.
RECURSIVE Sorted(_)
Sorted(S) ==
    IF S = {} THEN <<>>
    ELSE LET first == CHOOSE p \in S : \A q \in S \ {p} : PathLess(p, q)
         IN  <<first>> \o Sorted(S \ {first})

StartsWith(s, prefix) ==
    /\ Len(s) >= Len(prefix)
    /\ SubSeq(s, 1, Len(prefix)) = prefix

EndsWith(s, suffix) ==
    /\ Len(s) >= Len(suffix)
    /\ SubSeq(s, Len(s) - Len(suffix) + 1, Len(s)) = suffix

\* fnmatch of a name against the pattern  <prefix>*<suffix> .
MatchesStar(name, prefix, suffix) ==
    /\ Len(name) >= Len(prefix) + Len(suffix)
    /\ StartsWith(name, prefix)
    /\ EndsWith(name, suffix)

\* The leading characters of s up to its first "." .
RECURSIVE UpToDot(_)
UpToDot(s) ==
    IF s = <<>> \/ Head(s) = "." THEN <<>>
    ELSE <<Head(s)>> \o UpToDot(Tail(s))

AllDigits(s) == s # <<>> /\ \A i \in 1..Len(s) : IsDigit(s[i])

\* lstchain.paths.parse_calibration_name : the run number of a name of the
\* template <kind>.Run<run>.<subrun>.h5 ; a name that does not follow the
\* template is a parsing failure (ok = FALSE).
ParseCalibrationName(path) ==
    LET name   == path.name
        stem   == UpToDot(name)
        rest1  == SubSeq(name, Len(stem) + 1, Len(name))
        field  == IF StartsWith(rest1, Chars_Run)
                  THEN UpToDot(SubSeq(rest1, Len(Chars_Run) + 1, Len(rest1)))
                  ELSE <<>>
        rest2  == SubSeq(rest1, Len(Chars_Run) + Len(field) + 1, Len(rest1))
        subrun == IF rest2 # <<>> /\ Head(rest2) = "." THEN UpToDot(Tail(rest2)) ELSE <<>>
        rest3  == SubSeq(rest2, Len(subrun) + 2, Len(rest2))
    IN  IF /\ stem # <<>>
           /\ StartsWith(rest1, Chars_Run)
           /\ AllDigits(field)
           /\ AllDigits(subrun)
           /\ rest3 = Chars_h5
        THEN [ok |-> TRUE, run |-> ToInt(field), subrun |-> ToInt(subrun)]
        ELSE [ok |-> FALSE, run |-> -1, subrun |-> -1]

(***************************************************************************)
(* What a call does: it returns a value or raises an exception.  `files`   *)
(* is the file list a message interpolates (<<>> when it has none).        *)
(***************************************************************************)
Return(value) == [kind |-> "return", value |-> value]

Raise(exc, text, files) == [kind |-> "raise", exc |-> exc, text |-> text, files |-> files]

\* Path.resolve() of a file of the tree: the trees hold regular files in real
\* directories, so the resolved path has the same components.
ResolveFile(path) == PathOf(path.date, path.pro, path.name)

(***************************************************************************)
(* find_pedestal_file(pro, pedestal_run, date)                             *)
(***************************************************************************)
\* ped_dir.rglob(f'{pro}/drs4_pedestal.Run{pedestal_run:05d}.0000.h5')
PedestalRunGlob(tree, pro, pedestal_run) ==
    { p \in tree :
        /\ p.pro = pro
        /\ p.name = Chars_drs4_pedestal \o Chars_Run \o FormatRun(pedestal_run)
                      \o Chars_0000 \o Chars_h5 }

\* (ped_dir / date / pro).glob('drs4_pedestal*.0000.h5')
PedestalDateGlob(tree, pro, date) ==
    { p \in tree :
        /\ p.date = date
        /\ p.pro = pro
        /\ MatchesStar(p.name, Chars_drs4_pedestal, Chars_0000 \o Chars_h5) }

PedestalOfDateUnchecked(file_list) == Return(ResolveFile(file_list[1]))

\* The result for a list with at least one file (lines 55-58).
PedestalOfDate(file_list) ==
    IF Len(file_list) > 1
    THEN Raise("IOError", "Too many pedestal files found for date, choose one run", file_list)
    ELSE Return(ResolveFile(file_list[1]))

LastOf(file_list) == Return(ResolveFile(file_list[Len(file_list)]))

\* The result of a search for one run, for a list with at least one file.
FirstOf(file_list) == Return(ResolveFile(file_list[1]))

FindPedestalFile(tree, pro, pedestal_run, date) ==
    IF pedestal_run = NoRun /\ date = NoDate
    THEN Raise("ValueError", "Must give at least date or run", <<>>)
    ELSE IF pedestal_run # NoRun
    THEN LET file_list == Sorted(PedestalRunGlob(tree, pro, pedestal_run))
         IN  IF Len(file_list) = 0
             THEN Raise("IOError", "Pedestal file from run not found", <<>>)
             ELSE FirstOf(file_list)
    ELSE LET file_list == Sorted(PedestalDateGlob(tree, pro, date))
         IN  IF Len(file_list) = 0
             THEN Raise("IOError", "No pedestal file found for date", <<>>)
             ELSE PedestalOfDate(file_list)

(***************************************************************************)
(* find_time_calibration_file(pro, run, time_run)                          *)
(***************************************************************************)
\* time_dir.rglob(f'*/{pro}/time_calibration.Run*.0000.h5')
TimeFloorGlob(tree, pro) ==
    { p \in tree :
        /\ p.pro = pro
        /\ MatchesStar(p.name, Chars_time_calibration \o Chars_Run, Chars_0000 \o Chars_h5) }

\* time_dir.rglob(f'*/{pro}/time_calibration.Run{time_run:05d}.0000.h5')
TimeRunGlob(tree, pro, time_run) ==
    { p \in tree :
        /\ p.pro = pro
        /\ p.name = Chars_time_calibration \o Chars_Run \o FormatRun(time_run)
                      \o Chars_0000 \o Chars_h5 }

\* The list the loop of lines 84-89 goes over.
TimeCandidates(tree, pro) == Sorted(TimeFloorGlob(tree, pro))

\* The loop of lines 84-89 from position i on, time_file being the file kept
\* so far.  A parsing failure is not handled: it leaves the function.
RECURSIVE FloorLoop(_, _, _, _)
FloorLoop(file_list, i, run, time_file) ==
    IF i > Len(file_list) THEN [raised |-> FALSE, time_file |-> time_file]
    ELSE LET run_in_list == ParseCalibrationName(file_list[i])
         IN  IF ~run_in_list.ok THEN [raised |-> TRUE, time_file |-> time_file]
             ELSE IF run_in_list.run <= run
             THEN FloorLoop(file_list, i + 1, run, ResolveFile(file_list[i]))
             ELSE [raised |-> FALSE, time_file |-> time_file]

FindTimeCalibrationFile(tree, pro, run, time_run) ==
    IF time_run = NoRun
    THEN LET file_list == TimeCandidates(tree, pro)
         IN  IF Len(file_list) = 0
             THEN Raise("IOError", "No time calibration file found in the data tree for prod", <<>>)
             ELSE LET loop == FloorLoop(file_list, 1, run, NoPath)
                  IN  IF loop.raised
                      THEN Raise("ValueError", "parse_calibration_name failed", <<>>)
                      ELSE IF loop.time_file = NoPath
                      THEN Raise("IOError", "No time calibration file found before run for prod", <<>>)
                      ELSE Return(loop.time_file)
    ELSE LET file_list == Sorted(TimeRunGlob(tree, pro, time_run))
         IN  IF Len(file_list) = 0
             THEN Raise("IOError", "Time calibration file from run not found", <<>>)
             ELSE FirstOf(file_list)

(***************************************************************************)
(* The trees the lookups are run against, and the lookups' arguments.      *)
(***************************************************************************)
Date_20200101 == <<"2","0","2","0","0","1","0","1">>

Date_20200102 == <<"2","0","2","0","0","1","0","2">>

Dates == {Date_20200101, Date_20200102}

Pros == {<<"v","1">>, <<"v","2">>}

\* The run fields of the time-calibration names: formatted run numbers, the
\* last five-digit one and the first six-digit one among them, and a field
\* that is no number.
TimeRunFields ==
    {FormatRun(100), FormatRun(110), FormatRun(99999), FormatRun(100000), <<"x">>}

TimeFiles ==
    { PathOf(d, v, Chars_time_calibration \o Chars_Run \o r \o Chars_0000 \o Chars_h5) :
        d \in Dates, v \in Pros, r \in TimeRunFields }

PedestalRuns == {100, 110}

PedestalFiles ==
    { PathOf(d, v, Chars_drs4_pedestal \o Chars_Run \o FormatRun(r) \o Chars_0000 \o e) :
        d \in Dates, v \in Pros, r \in PedestalRuns, e \in {Chars_h5, Chars_fits} }

\* The subsets of U with at most k elements.
RECURSIVE SubsetsUpTo(_, _)
SubsetsUpTo(U, k) ==
    IF k = 0 THEN {{}}
    ELSE LET smaller == SubsetsUpTo(U, k - 1)
         IN  smaller \cup { S \cup {x} : S \in smaller, x \in U }

\* The observation runs asked for.
QueryRuns == {99, 100, 107, 100000}

\* The time_run and pedestal_run arguments.
ExactRuns == {NoRun, 100, 110}

NoCall == [op |-> "none"]

(***************************************************************************)
(* The "pro" symlink: create_pro_symlink(output_dir).                      *)
(*                                                                         *)
(* The output directories are <parent>/<version>; the symlink of a parent  *)
(* is <parent>/pro.  A link's text is absolute (as symlink_to(output_dir)  *)
(* writes it, output_dir being resolved) or relative to the link's         *)
(* directory (as  ln -s v1 pro  writes it).                                *)
(***************************************************************************)
Parents == {"20200101", "20200102"}

Versions == {"v1", "v2", "v3"}

DirPath(parent, version) == [parent |-> parent, entry |-> version]

ProPath(parent) == [parent |-> parent, entry |-> "pro"]

AllDirs == { DirPath(p, v) : p \in Parents, v \in Versions }

NoDir == [parent |-> "", entry |-> ""]

NoLink == [kind |-> "none"]

AbsLink(dir) == [kind |-> "abs", parent |-> dir.parent, entry |-> dir.entry]

RelLink(dir) == [kind |-> "rel", entry |-> dir.entry]

\* The directory a link's text names, for a link in `parent`.
LinkTarget(parent, text) ==
    IF text.kind = "abs" THEN DirPath(text.parent, text.entry)
    ELSE DirPath(parent, text.entry)

FileSystem(d, l) == [dirs |-> d, links |-> l]

\* The path the symlinks lead to from `path`, whether it exists or not; a
\* chain of links that comes back to a link it went through is a loop.
RECURSIVE Realpath(_, _, _)
Realpath(fs, path, seen) ==
    IF path.entry = "pro" /\ fs.links[path.parent] # NoLink
    THEN IF path \in seen
         THEN [path |-> path, exc |-> "RuntimeError"]
         ELSE Realpath(fs, LinkTarget(path.parent, fs.links[path.parent]),
                       seen \cup {path})
    ELSE [path |-> path, exc |-> None]

\* Path.exists(): follows the symlinks, so False for a missing link, a
\* dangling link and a loop.
Exists(fs, path) ==
    LET r == Realpath(fs, path, {})
    IN  r.exc = None /\ r.path \in fs.dirs

\* Path.resolve(): the target of a symlink, on disk or not; a path that does
\* not exist, and a directory, are their own resolved paths.
Resolve(fs, path) == Realpath(fs, path, {}).path

\* os.lstat(path) inside Path.resolve(): is there a symlink at the path?
IsLink(fs, path) == path.entry = "pro" /\ fs.links[path.parent] # NoLink

\* os.readlink(path) inside Path.resolve(), which does not catch its
\* exception.
Readlink(fs, path) ==
    IF fs.links[path.parent] = NoLink
    THEN [fs |-> fs, exc |-> "FileNotFoundError"]
    ELSE [fs |-> fs, exc |-> None]

\* Path.unlink(): removes the link itself.
Unlink(fs, path) ==
    IF fs.links[path.parent] = NoLink
    THEN [fs |-> fs, exc |-> "FileNotFoundError"]
    ELSE [fs |-> [fs EXCEPT !.links[path.parent] = NoLink], exc |-> None]

\* Path.symlink_to(target)
SymlinkTo(fs, path, target) ==
    IF fs.links[path.parent] # NoLink
    THEN [fs |-> fs, exc |-> "FileExistsError"]
    ELSE [fs |-> [fs EXCEPT !.links[path.parent] = AbsLink(target)], exc |-> None]

\* line 12: pro_dir = output_dir.parent / "pro"
ProDir(output_dir) == ProPath(output_dir.parent)

PointsElsewhereByText(fs, pro_dir, output_dir) ==
    fs.links[pro_dir.parent] # AbsLink(output_dir)

NeverPointsElsewhere(fs, pro_dir, output_dir) == FALSE

\* line 15, second operand: pro_dir.resolve() != output_dir.resolve()
PointsElsewhere(fs, pro_dir, output_dir) ==
    Resolve(fs, pro_dir) # Resolve(fs, output_dir)

\* An invocation at its start: line 11 has resolved the argument, or has
\* raised RuntimeError for a symlink loop (output_dir is then the argument).
Invocation(fs, arg) ==
    LET r == Realpath(fs, arg, {})
    IN  IF r.exc # None
        THEN [pc |-> "raised", output_dir |-> arg, ops |-> <<>>, exc |-> r.exc]
        ELSE [pc |-> "exists", output_dir |-> r.path, ops |-> <<>>, exc |-> None]

\* One step of an invocation, each a single access to the file system:
\*   exists      line 15, pro_dir.exists()
\*   resolve     line 15, pro_dir.resolve() != output_dir.resolve() : the
\*               os.lstat of pro_dir; without a link there the path is its
\*               own resolved path and the comparison is made
\*   readlink    line 15, the os.readlink of the link that os.lstat saw,
\*               then the comparison
\*   unlink      line 16
\*   not_exists  line 18
\*   symlink_to  line 19
\* ending in "returned" or, after an exception, "raised".
Step(fs, st) ==
    LET pro_dir == ProDir(st.output_dir)
    IN  CASE st.pc = "exists" ->
               [fs |-> fs,
                st |-> [st EXCEPT !.pc = IF Exists(fs, pro_dir) THEN "resolve"
                                         ELSE "not_exists"]]
          [] st.pc = "resolve" ->
               [fs |-> fs,
                st |-> [st EXCEPT !.pc = IF IsLink(fs, pro_dir) THEN "readlink"
                                         ELSE IF PointsElsewhere(fs, pro_dir, st.output_dir)
                                         THEN "unlink" ELSE "not_exists"]]
          [] st.pc = "readlink" ->
               LET r == Readlink(fs, pro_dir)
               IN  [fs |-> fs,
                    st |-> IF r.exc # None
                           THEN [st EXCEPT !.pc = "raised", !.exc = r.exc]
                           ELSE [st EXCEPT !.pc = IF PointsElsewhere(fs, pro_dir, st.output_dir)
                                                  THEN "unlink" ELSE "not_exists"]]
          [] st.pc = "unlink" ->
               LET r == Unlink(fs, pro_dir)
               IN  [fs |-> r.fs,
                    st |-> IF r.exc = None
                           THEN [st EXCEPT !.pc = "not_exists", !.ops = Append(@, "unlink")]
                           ELSE [st EXCEPT !.pc = "raised", !.exc = r.exc]]
          [] st.pc = "not_exists" ->
               [fs |-> fs,
                st |-> [st EXCEPT !.pc = IF ~Exists(fs, pro_dir) THEN "symlink_to"
                                         ELSE "returned"]]
          [] st.pc = "symlink_to" ->
               LET r == SymlinkTo(fs, pro_dir, st.output_dir)
               IN  [fs |-> r.fs,
                    st |-> IF r.exc = None
                           THEN [st EXCEPT !.pc = "returned", !.ops = Append(@, "symlink_to")]
                           ELSE [st EXCEPT !.pc = "raised", !.exc = r.exc]]

Ended(st) == st.pc \in {"returned", "raised"}

\* The steps of one invocation with nothing in between.
RECURSIVE RunToEnd(_, _)
RunToEnd(fs, st) ==
    IF Ended(st) THEN [fs |-> fs, st |-> st]
    ELSE LET next == Step(fs, st) IN RunToEnd(next.fs, next.st)

\* create_pro_symlink(arg) run alone.
CreateProSymlink(fs, arg) == RunToEnd(fs, Invocation(fs, arg))

\* The states the symlinks can be in: none, or a link whose text names a
\* directory, on disk or not, absolutely or relative to the link's parent.
AnyLinks ==
    [Parents -> {NoLink} \cup { AbsLink(x) : x \in AllDirs } \cup { RelLink(x) : x \in AllDirs }]

\* The states the symlinks are in when every directory ever promoted is on
\* disk: none, or a link to an existing directory of the link's parent.
SaneLinks(d) ==
    { l \in AnyLinks :
        \A p \in Parents :
            l[p] # NoLink => /\ LinkTarget(p, l[p]) \in d
                             /\ l[p].kind = "abs" => l[p].parent = p }

InitPointerIdle ==
    /\ dirs = {}
    /\ links = [p \in Parents |-> NoLink]
    /\ lastCall = NoCall
    /\ inv = <<>>
    /\ lastWriter = NoDir

InitLookupIdle ==
    /\ timeTree = {}
    /\ pedTree = {}
    /\ outcome = NoCall

\* No onsite script around.
InitStagesIdle ==
    /\ r0Tree = {}
    /\ summaries = {}
    /\ configs = {}
    /\ stageDirs = {}
    /\ logTree = {}
    /\ ped = <<>>
    /\ tim = <<>>
    /\ started = 0

(***************************************************************************)
(* SpecPro: create_pro_symlink called again and again, one call at a time, *)
(* for a directory, on disk or not, or for the path of a link, from any    *)
(* directories and links.                                                  *)
(***************************************************************************)
InitPro ==
    /\ InitLookupIdle
    /\ InitStagesIdle
    /\ dirs \in SUBSET AllDirs
    /\ links \in AnyLinks
    /\ lastCall = NoCall
    /\ inv = <<>>
    /\ lastWriter = NoDir

CallCreateProSymlink(arg) ==
    /\ \E before \in {FileSystem(dirs, links)} :
       \E end \in {CreateProSymlink(before, arg)} :
           /\ dirs' = end.fs.dirs
           /\ links' = end.fs.links
           /\ lastCall' = [op |-> "create_pro_symlink",
                           output_dir |-> end.st.output_dir,
                           previous |-> IF lastCall = NoCall THEN NoDir
                                        ELSE lastCall.output_dir,
                           ops |-> end.st.ops,
                           exc |-> end.st.exc,
                           before |-> before]
    /\ UNCHANGED <<timeTree, pedTree, outcome, inv, lastWriter, stageVars>>

NextPro ==
    \E arg \in AllDirs \cup { ProPath(p) : p \in Parents } : CallCreateProSymlink(arg)

SpecPro == InitPro /\ [][NextPro]_vars

(***************************************************************************)
(* SpecRace: two invocations of create_pro_symlink for different existing  *)
(* directories of one parent, their file-system accesses interleaved.      *)
(***************************************************************************)
InitRace ==
    /\ InitLookupIdle
    /\ InitStagesIdle
    /\ dirs \in SUBSET AllDirs
    /\ links \in SaneLinks(dirs)
    /\ lastCall = NoCall
    /\ \E a, b \in dirs :
          /\ a # b
          /\ a.parent = b.parent
          /\ inv = << Invocation(FileSystem(dirs, links), a),
                      Invocation(FileSystem(dirs, links), b) >>
    /\ lastWriter = NoDir

\* Invocation i does the step it is at.
TakeStep(i) ==
    /\ LET next == Step(FileSystem(dirs, links), inv[i])
       IN  /\ dirs' = next.fs.dirs
           /\ links' = next.fs.links
           /\ inv' = [inv EXCEPT ![i] = next.st]
           /\ lastWriter' = IF inv[i].pc = "symlink_to" /\ next.st.exc = None
                            THEN inv[i].output_dir
                            ELSE lastWriter
    /\ UNCHANGED <<timeTree, pedTree, outcome, lastCall, stageVars>>

RaceExists(i) ==
    /\ inv[i].pc = "exists"
    /\ TakeStep(i)

RaceResolve(i) ==
    /\ inv[i].pc = "resolve"
    /\ TakeStep(i)

RaceReadlink(i) ==
    /\ inv[i].pc = "readlink"
    /\ TakeStep(i)

RaceUnlink(i) ==
    /\ inv[i].pc = "unlink"
    /\ TakeStep(i)

RaceNotExists(i) ==
    /\ inv[i].pc = "not_exists"
    /\ TakeStep(i)

RaceSymlinkTo(i) ==
    /\ inv[i].pc = "symlink_to"
    /\ TakeStep(i)

NextRace ==
    \E i \in {1, 2} :
        \/ RaceExists(i)
        \/ RaceResolve(i)
        \/ RaceReadlink(i)
        \/ RaceUnlink(i)
        \/ RaceNotExists(i)
        \/ RaceSymlinkTo(i)

SpecRace == InitRace /\ [][NextRace]_vars

(***************************************************************************)
(* SpecLookup: a tree of one of the two kinds and the lookups over it.     *)
(***************************************************************************)
InitLookup ==
    /\ \/ timeTree \in SubsetsUpTo(TimeFiles, MaxFiles) /\ pedTree = {}
       \/ timeTree = {} /\ pedTree \in SubsetsUpTo(PedestalFiles, MaxFiles)
    /\ outcome = NoCall
    /\ InitPointerIdle
    /\ InitStagesIdle

\* A script calls one lookup and ends; the next one starts from no call.
CallFindPedestalFile(pro, pedestal_run, date) ==
    /\ outcome = NoCall
    /\ outcome' = [op |-> "find_pedestal_file", pro |-> pro, run |-> pedestal_run,
                   date |-> date,
                   res |-> FindPedestalFile(pedTree, pro, pedestal_run, date)]
    /\ UNCHANGED <<timeTree, pedTree, dirs, links, lastCall, inv, lastWriter, stageVars>>

CallFindTimeCalibrationFile(pro, run, time_run) ==
    /\ outcome = NoCall
    /\ outcome' = [op |-> "find_time_calibration_file", pro |-> pro, run |-> run,
                   time_run |-> time_run,
                   res |-> FindTimeCalibrationFile(timeTree, pro, run, time_run)]
    /\ UNCHANGED <<timeTree, pedTree, dirs, links, lastCall, inv, lastWriter, stageVars>>

ScriptEnds ==
    /\ outcome # NoCall
    /\ outcome' = NoCall
    /\ UNCHANGED <<timeTree, pedTree, dirs, links, lastCall, inv, lastWriter, stageVars>>

NextLookup ==
    \/ ScriptEnds
    \/ \E pro \in Pros, pedestal_run \in ExactRuns, date \in Dates \cup {NoDate} :
          CallFindPedestalFile(pro, pedestal_run, date)
    \/ \E pro \in Pros, run \in QueryRuns, time_run \in ExactRuns :
          CallFindTimeCalibrationFile(pro, run, time_run)

SpecLookup == InitLookup /\ [][NextLookup]_vars

(***************************************************************************)
(* Properties of the lookups.                                              *)
(***************************************************************************)
RunOf(p) == ParseCalibrationName(p).run

Parses(p) == ParseCalibrationName(p).ok

\* The artifacts of a tree stored under a production version, in any date
\* directory, and those of them of one run.
ArtifactsOf(tree, pro) == { p \in tree : p.pro = pro /\ Parses(p) }

ArtifactsOfRun(tree, pro, run) == { p \in ArtifactsOf(tree, pro) : RunOf(p) = run }

\* Every file of the tree carries a run number.
AllParse(tree) == \A p \in tree : Parses(p)

FloorCall ==
    /\ outcome.op = "find_time_calibration_file"
    /\ outcome.time_run = NoRun

\* C1: a floor lookup over artifacts of which one at least has a run <= N
\* returns an artifact of the greatest run number that is <= N.
C1_FloorReturnsGreatestRunBelow ==
    (/\ FloorCall
     /\ AllParse(timeTree)
     /\ \E p \in ArtifactsOf(timeTree, outcome.pro) : RunOf(p) <= outcome.run)
    => /\ outcome.res.kind = "return"
       /\ outcome.res.value \in ArtifactsOf(timeTree, outcome.pro)
       /\ RunOf(outcome.res.value) <= outcome.run
       /\ \A p \in ArtifactsOf(timeTree, outcome.pro) :
             RunOf(p) <= outcome.run => RunOf(p) <= RunOf(outcome.res.value)

\* C2: a floor lookup raises exactly when no artifact of the production
\* version has a run number <= N.
C2_FloorNotFoundExactly ==
    (FloorCall /\ AllParse(timeTree))
    => ( outcome.res.kind = "raise"
         <=> ~ \E p \in ArtifactsOf(timeTree, outcome.pro) : RunOf(p) <= outcome.run )

\* C8: the candidates the floor lookup goes over are in non-decreasing order
\* of run number.
C8_CandidatesAscendingByRun ==
    (FloorCall /\ AllParse(timeTree))
    => LET file_list == TimeCandidates(timeTree, outcome.pro)
       IN  \A i, j \in 1..Len(file_list) :
              i < j => RunOf(file_list[i]) <= RunOf(file_list[j])

\* C9: a candidate without a run number is left out: when the floor lookup
\* over the tree without such candidates returns a file, the lookup over the
\* whole tree returns that file.
C9_UnparseableCandidateSkipped ==
    LET parseable == { p \in timeTree : Parses(p) }
    IN  (/\ FloorCall
         /\ FindTimeCalibrationFile(parseable, outcome.pro, outcome.run, NoRun).kind
               = "return")
        => outcome.res
             = FindTimeCalibrationFile(parseable, outcome.pro, outcome.run, NoRun)

ExactRunCall ==
    \/ outcome.op = "find_pedestal_file" /\ outcome.run # NoRun
    \/ outcome.op = "find_time_calibration_file" /\ outcome.time_run # NoRun

\* The files of the run an exact-run lookup asked for.
ExactRunMatches ==
    IF outcome.op = "find_pedestal_file"
    THEN ArtifactsOfRun(pedTree, outcome.pro, outcome.run)
    ELSE ArtifactsOfRun(timeTree, outcome.pro, outcome.time_run)

\* C3 as claimed: an exact-run lookup returns the file when there is one,
\* raises for none, and raises with all the candidates when there are several.
C3_ExactRunNeverPicks ==
    ExactRunCall
    => LET matches == ExactRunMatches
       IN  /\ matches = {} => outcome.res.kind = "raise"
           /\ Cardinality(matches) = 1 => outcome.res = Return(CHOOSE p \in matches : TRUE)
           /\ Cardinality(matches) > 1 =>
                 /\ outcome.res.kind = "raise"
                 /\ { outcome.res.files[i] : i \in 1..Len(outcome.res.files) } = matches

\* C3 as the code has it: an exact-run lookup raises IOError for no file of
\* the run, and otherwise returns the one in the date directory whose name
\* comes first; several candidates are no error.
C3_ExactRunReturnsFirst ==
    ExactRunCall
    => LET matches == ExactRunMatches
       IN  /\ matches = {} =>
                 /\ outcome.res.kind = "raise"
                 /\ outcome.res.exc = "IOError"
           /\ matches # {} =>
                 /\ outcome.res.kind = "return"
                 /\ outcome.res.value \in matches
                 /\ \A q \in matches \ {outcome.res.value} :
                       StrLess(outcome.res.value.date, q.date)

\* An exact-run lookup that found the run in two date directories and
\* returned one of the files.
C3_Witness ==
    /\ ExactRunCall
    /\ Cardinality(ExactRunMatches) > 1
    /\ outcome.res.kind = "return"

DateCall ==
    /\ outcome.op = "find_pedestal_file"
    /\ outcome.run = NoRun
    /\ outcome.date # NoDate

\* The pedestal files of sub-run 0 in <date>/<pro>.
DateMatches ==
    { p \in ArtifactsOf(pedTree, outcome.pro) :
        /\ p.date = outcome.date
        /\ StartsWith(p.name, Chars_drs4_pedestal)
        /\ ParseCalibrationName(p).subrun = 0 }

\* C4: a lookup by date returns the pedestal file of <date>/<pro> when there
\* is exactly one, raises "No pedestal file found" when there is none, and
\* with several raises another error, whose message lists all of them.
C4_PedestalByDate ==
    DateCall
    => LET matches == DateMatches
       IN  /\ Cardinality(matches) = 1 => outcome.res = Return(CHOOSE p \in matches : TRUE)
           /\ matches = {} =>
                 /\ outcome.res.kind = "raise"
                 /\ outcome.res.text = "No pedestal file found for date"
                 /\ outcome.res.files = <<>>
           /\ Cardinality(matches) > 1 =>
                 /\ outcome.res.kind = "raise"
                 /\ outcome.res.text # "No pedestal file found for date"
                 /\ Len(outcome.res.files) = Cardinality(matches)
                 /\ { outcome.res.files[i] : i \in 1..Len(outcome.res.files) } = matches

\* A lookup by date that found several pedestal files and raised with them.
C4_Witness ==
    /\ DateCall
    /\ Cardinality(DateMatches) > 1
    /\ outcome.res.kind = "raise"
    /\ Len(outcome.res.files) > 1

(***************************************************************************)
(* Properties of the "pro" symlink, one call at a time (SpecPro).          *)
(***************************************************************************)
\* C5: after a call, the pro link beside the call's directory is absent or
\* names an existing directory of that same parent: no call creates a
\* dangling link or leaves one.
C5_ProNeverDangling ==
    lastCall # NoCall
    => LET p == ProDir(lastCall.output_dir).parent
       IN  links[p] # NoLink =>
               /\ LinkTarget(p, links[p]) \in dirs
               /\ LinkTarget(p, links[p]).parent = p

\* Two calls in a row, for different existing directories of one parent.
PromotedTwice ==
    /\ lastCall # NoCall
    /\ lastCall.previous # NoDir
    /\ lastCall.previous # lastCall.output_dir
    /\ lastCall.previous.parent = lastCall.output_dir.parent
    /\ lastCall.previous \in dirs
    /\ lastCall.output_dir \in dirs

\* C6: after promote(dirA) and then promote(dirB), dirA and dirB existing
\* in one parent, whatever the link was before, the link resolves to dirB,
\* dirA and all other directories are there as before, and no other
\* parent's link has changed.
C6_SecondPromoteWins ==
    PromotedTwice
    => LET parent == lastCall.output_dir.parent
       IN  /\ lastCall.exc = None
           /\ links[parent] # NoLink
           /\ LinkTarget(parent, links[parent]) = lastCall.output_dir
           /\ lastCall.previous \in dirs
           /\ dirs = lastCall.before.dirs
           /\ \A q \in Parents \ {parent} : links[q] = lastCall.before.links[q]

\* The last call was for an existing directory and found the link resolving
\* to it already.
PromotedAgain ==
    /\ lastCall # NoCall
    /\ lastCall.output_dir \in lastCall.before.dirs
    /\ Resolve(lastCall.before, ProPath(lastCall.output_dir.parent)) = lastCall.output_dir

\* C7: a call for the directory the link resolves to already, whatever the
\* link's text, does no unlink and no symlink_to, raises nothing and leaves
\* the file system as it was.
C7_PromoteIdempotent ==
    PromotedAgain
    => /\ lastCall.ops = <<>>
       /\ lastCall.exc = None
       /\ FileSystem(dirs, links) = lastCall.before
       /\ Resolve(FileSystem(dirs, links), ProPath(lastCall.output_dir.parent))
            = lastCall.output_dir

\* Twice the same directory, the link's text being relative.
C7_Witness ==
    /\ PromotedAgain
    /\ lastCall.previous = lastCall.output_dir
    /\ links[lastCall.output_dir.parent] = RelLink(lastCall.output_dir)
    /\ lastCall.ops = <<>>

(***************************************************************************)
(* Properties of two racing invocations (SpecRace).                        *)
(***************************************************************************)
BothEnded == Ended(inv[1]) /\ Ended(inv[2])

RaceParent == inv[1].output_dir.parent

\* C10 as claimed: both invocations end without an exception, and the link
\* then resolves to the directory of the last symlink_to.
C10_BothReturnLastWriterWins ==
    BothEnded
    => /\ inv[1].pc = "returned"
       /\ inv[2].pc = "returned"
       /\ links[RaceParent] # NoLink
       /\ LinkTarget(RaceParent, links[RaceParent]) = lastWriter

\* C10 as the code has it: the link is at all times absent or resolving to
\* an existing directory of its parent; an invocation may end in
\* FileNotFoundError (from unlink, or from the readlink of resolve) or
\* FileExistsError (from symlink_to), but not both invocations; and when both have ended the link exists and
\* resolves to the directory of the last symlink_to that succeeded, which is
\* the directory of one of the two invocations.
C10_LastSuccessfulWriterWins ==
    /\ links[RaceParent] # NoLink =>
          /\ LinkTarget(RaceParent, links[RaceParent]) \in dirs
          /\ LinkTarget(RaceParent, links[RaceParent]).parent = RaceParent
    /\ \A i \in {1, 2} :
          /\ inv[i].pc = "raised" <=> inv[i].exc # None
          /\ inv[i].exc \in {None, "FileNotFoundError", "FileExistsError"}
    /\ BothEnded
       => /\ inv[1].pc = "returned" \/ inv[2].pc = "returned"
          /\ links[RaceParent] # NoLink
          /\ lastWriter \in {inv[1].output_dir, inv[2].output_dir}
          /\ LinkTarget(RaceParent, links[RaceParent]) = lastWriter

\* Both have ended, one of them by an exception, and the link is the other's.
C10_Witness ==
    /\ BothEnded
    /\ inv[1].pc = "raised"
    /\ inv[2].ops = <<"unlink", "symlink_to">>
    /\ LinkTarget(RaceParent, links[RaceParent]) = inv[2].output_dir


(***************************************************************************)
(* The onsite scripts.  onsite_create_drs4_pedestal_file has an external   *)
(* program write <base>/monitoring/PixelCalibration/drs4_baseline/         *)
(* <date>/<prod_id>/drs4_pedestal.Run<run>.0000.fits (pedTree);            *)
(* onsite_create_drs4_time_file looks for such a file and has an external  *)
(* program write .../drs4_time_sampling_from_FF/<date>/<prod_id>/          *)
(* time_calibration.Run<run>.0000.h5 (timeTree).  Several scripts can run  *)
(* at the same time: each one advances from one file-system access or      *)
(* wait of its main to the next.  A command-line argument is drawn at the  *)
(* step where main first reads it.                                         *)
(***************************************************************************)
Chars_pdf == <<".", "p", "d", "f">>

\* The width of the sub-run field in f'{sub_run:04d}'.
SubRunWidth == 4

\* The default of --sub_run.
DefaultSubRun == 0

\* fnmatch of a name against the pattern  *<infix>* .
Contains(name, infix) ==
    \E i \in 0..(Len(name) - Len(infix)) : SubSeq(name, i + 1, i + Len(infix)) = infix

\* A file of <base>/R0 : <date>/<name>, no production directory in between.
R0File(date, name) == PathOf(date, <<>>, name)

\* pedestal script, line 47: Path(f"{base_dir}/R0").rglob(f'*{run:05d}.0000*')
PedestalInputGlob(tree, run) ==
    { f \in tree : Contains(f.name, FormatRun(run) \o Chars_0000) }

\* time script, line 64: Path(f"{base_dir}/R0").rglob(f'*{run}.{sub_run:04d}*')
FlatFieldInputGlob(tree, run, sub_run) ==
    { f \in tree :
        Contains(f.name, Decimal(run) \o <<".">> \o ZeroPad(Decimal(sub_run), SubRunWidth)) }

\* The process ends: sys.exit(code) after the message `text`, or main
\* returns (status 0).
Exit(code, text) == [kind |-> "exit", code |-> code, text |-> text]

End == [kind |-> "exit", code |-> 0, text |-> "--> END"]

NoResult == [kind |-> "none"]

\* A directory a script makes: <tree>/<date>/<prod_id>, or its log directory.
StageDir(tree, date, prod_id, log) ==
    [tree |-> tree, date |-> date, pro |-> prod_id, log |-> log]

\* pedestal script, lines 59 and 71:
\* f"{output_dir}/drs4_pedestal.Run{run:05d}.0000.fits"
PedestalOutputName(run) ==
    Chars_drs4_pedestal \o Chars_Run \o FormatRun(run) \o Chars_0000 \o Chars_fits

PedestalOutputFile(date, prod_id, run) == PathOf(date, prod_id, PedestalOutputName(run))

\* pedestal script, line 96:
\* f"{output_dir}/log/drs4_pedestal.Run{run:05d}.0000.pdf"
PedestalPlotFile(date, prod_id, run) ==
    PathOf(date, prod_id,
           Chars_drs4_pedestal \o Chars_Run \o FormatRun(run) \o Chars_0000 \o Chars_pdf)

\* time script, lines 77 and 119:
\* f"{output_dir}/time_calibration.Run{run:05d}.0000.h5"
TimeOutputFile(date, prod_id, run) ==
    PathOf(date, prod_id,
           Chars_time_calibration \o Chars_Run \o FormatRun(run) \o Chars_0000 \o Chars_h5)

\* The name of the log directory (pedestal script, line 65).
Chars_log == <<"l", "o", "g">>

\* A path below .../drs4_baseline : <date>/<pro>/<name>, or with the
\* directories `sub` between <pro> and <name>.
StagePath(file, sub) ==
    [date |-> file.date, pro |-> file.pro, sub |-> sub, name |-> file.name]

NoStagePath == StagePath(NoPath, <<>>)

\* The files of the tree and of its log directories, as paths.
StagePaths(tree, logs) ==
    { StagePath(f, <<>>) : f \in tree } \cup { StagePath(f, <<Chars_log>>) : f \in logs }

Parts(path) == <<path.date, path.pro>> \o path.sub \o <<path.name>>

\* list < list of strings: the first differing part decides, a proper
\* prefix comes first.
RECURSIVE PartsLess(_, _)
PartsLess(a, b) ==
    IF a = <<>> THEN b # <<>>
    ELSE IF b = <<>> THEN FALSE
    ELSE IF Head(a) = Head(b) THEN PartsLess(Tail(a), Tail(b))
    ELSE StrLess(Head(a), Head(b))

\* sorted(...) of a set of paths of the tree.
RECURSIVE StageSorted(_)
StageSorted(S) ==
    IF S = {} THEN <<>>
    ELSE LET first == CHOOSE p \in S : \A q \in S \ {p} : PartsLess(Parts(p), Parts(q))
         IN  <<first>> \o StageSorted(S \ {first})

\* The directory a path is in is named `name`.
InDirectoryNamed(path, name) ==
    IF path.sub = <<>> THEN path.pro = name ELSE path.sub[Len(path.sub)] = name

\* time script, line 107: f'drs4_pedestal.Run{ped_run}.0000.fits'
PedestalSearchName(ped_run) ==
    Chars_drs4_pedestal \o Chars_Run \o Decimal(ped_run) \o Chars_0000 \o Chars_fits

\* time script, line 107:
\* Path(ped_dir).rglob(f'*/{prod_id}/drs4_pedestal.Run{ped_run}.0000.fits')
\* a file of that name in a directory named prod_id, two or more levels
\* below ped_dir.
StagePedestalRunGlob(tree, logs, prod_id, ped_run) ==
    { p \in StagePaths(tree, logs) :
        /\ InDirectoryNamed(p, prod_id)
        /\ p.name = PedestalSearchName(ped_run) }

\* time script, line 95:
\* Path(f"{ped_dir}/{date}/{prod_id}/").rglob('drs4_pedestal*.0000.fits')
\* rglob descends into the log directory.
StagePedestalDateGlob(tree, logs, date, prod_id) ==
    { p \in StagePaths(tree, logs) :
        /\ p.date = date
        /\ p.pro = prod_id
        /\ MatchesStar(p.name, Chars_drs4_pedestal, Chars_0000 \o Chars_fits) }

\* time script, lines 93-112: the pedestal file of the time-calibration
\* stage, for a flat-field run of `date`.
StagePedestalFile(tree, logs, date, prod_id, ped_run) ==
    IF ped_run = NoRun
    THEN LET file_list == StageSorted(StagePedestalDateGlob(tree, logs, date, prod_id))
         IN  IF Len(file_list) = 0
             THEN Exit(4, "No pedestal file found for date")
             ELSE IF Len(file_list) > 1
             THEN Exit(5, "Too many pedestal files found for date, choose one run")
             ELSE Return(file_list[1])
    ELSE LET file_list == StageSorted(StagePedestalRunGlob(tree, logs, prod_id, ped_run))
         IN  IF Len(file_list) = 0
             THEN Exit(6, "Pedestal file from run not found")
             ELSE Return(file_list[1])

(***************************************************************************)
(* The site the scripts are run at.                                        *)
(***************************************************************************)
Chars_LST == <<"L", "S", "T", "-", "1", ".", "1">>

Chars_fz == <<".", "f", "z">>

\* LST-1.1.Run<run:05d>.0000.fits.fz
R0Name(run) == Chars_LST \o Chars_Run \o FormatRun(run) \o Chars_0000 \o Chars_fits \o Chars_fz

\* Pedestal runs 123 and 10123 and flat-field run 900 were taken on the
\* first date, flat-field run 1900 on the second.
SiteR0 ==
    { R0File(Date_20200101, R0Name(123)), R0File(Date_20200101, R0Name(10123)),
      R0File(Date_20200101, R0Name(900)), R0File(Date_20200102, R0Name(1900)) }

\* The runs the scripts are started for; 124 and 901 have no R0 file.
StageRuns == {123, 124, 10123}

FlatFieldRuns == {900, 901, 1900}

PedestalRunArgs == {NoRun, 123, 10123}

DefaultConfig == "onsite_camera_calibration_param.json"

ConfigArgs == {DefaultConfig, "missing.json"}

PedestalScripts == {"first", "second"}

(***************************************************************************)
(* SpecPipeline: invocations of the two scripts, one after the other or    *)
(* at the same time, from empty calibration trees.                         *)
(***************************************************************************)
PedIdle ==
    [pc |-> "idle", run |-> NoRun, date |-> NoDate, pro |-> <<>>, res |-> NoResult]

PedEnded(res) == [PedIdle EXCEPT !.pc = "ended", !.res = res]

TimIdle ==
    [pc |-> "idle", run |-> NoRun, date |-> NoDate, pro |-> <<>>,
     pedestal_file |-> NoStagePath, res |-> NoResult]

TimEnded(res) == [TimIdle EXCEPT !.pc = "ended", !.res = res]

InitPipeline ==
    /\ timeTree = {}
    /\ pedTree = {}
    /\ outcome = NoCall
    /\ InitPointerIdle
    /\ r0Tree = SiteR0
    /\ summaries \in {{Date_20200101}, {Date_20200101, Date_20200102}}
    /\ configs = {DefaultConfig}
    /\ stageDirs = {}
    /\ logTree = {}
    /\ ped = [p \in PedestalScripts |-> PedIdle]
    /\ tim = TimIdle
    /\ started = 0

\* pedestal script, lines 44-56: the script is started with -r run; it looks
\* for the R0 file of the run and takes the date from its directory.
PedestalFindInput(p, run) ==
    /\ ped[p].pc \in {"idle", "ended"}
    /\ started < MaxStarts
    /\ started' = started + 1
    /\ LET file_list == Sorted(PedestalInputGlob(r0Tree, run))
       IN  ped' = [ped EXCEPT ![p] =
                     IF Len(file_list) = 0
                     THEN PedEnded(Exit(1, "Error: Run not found under R0"))
                     ELSE [PedIdle EXCEPT !.pc = "outdir_exists", !.run = run,
                                          !.date = file_list[1].date]]
    /\ UNCHANGED <<timeTree, pedTree, outcome, dirs, links, lastCall, inv, lastWriter,
                   r0Tree, summaries, configs, stageDirs, logTree, tim>>

\* pedestal script, lines 58-60: os.path.exists(output_dir), for -v prod_id.
PedestalCheckOutputDir(p, prod_id) ==
    /\ ped[p].pc = "outdir_exists"
    /\ ped' = [ped EXCEPT ![p].pro = prod_id,
                          ![p].pc = IF StageDir("drs4_baseline", ped[p].date, prod_id, FALSE)
                                       \in stageDirs
                                    THEN "logdir_exists" ELSE "outdir_make"]
    /\ UNCHANGED <<timeTree, pedTree, outcome, dirs, links, lastCall, inv, lastWriter,
                   r0Tree, summaries, configs, stageDirs, logTree, tim, started>>

\* pedestal script, lines 61-62: os.makedirs(output_dir, exist_ok=True).
PedestalMakeOutputDir(p) ==
    /\ ped[p].pc = "outdir_make"
    /\ stageDirs' = stageDirs \cup
                      {StageDir("drs4_baseline", ped[p].date, ped[p].pro, FALSE)}
    /\ ped' = [ped EXCEPT ![p].pc = "logdir_exists"]
    /\ UNCHANGED <<timeTree, pedTree, outcome, dirs, links, lastCall, inv, lastWriter,
                   r0Tree, summaries, configs, logTree, tim, started>>

\* pedestal script, lines 64-66: os.path.exists(log_dir).
PedestalCheckLogDir(p) ==
    /\ ped[p].pc = "logdir_exists"
    /\ ped' = [ped EXCEPT ![p].pc = IF StageDir("drs4_baseline", ped[p].date, ped[p].pro, TRUE)
                                       \in stageDirs
                                    THEN "exists" ELSE "logdir_make"]
    /\ UNCHANGED <<timeTree, pedTree, outcome, dirs, links, lastCall, inv, lastWriter,
                   r0Tree, summaries, configs, stageDirs, logTree, tim, started>>

\* pedestal script, lines 67-71: os.makedirs(log_dir, exist_ok=True), which
\* makes the directories above log_dir as well.
PedestalMakeLogDir(p) ==
    /\ ped[p].pc = "logdir_make"
    /\ stageDirs' = stageDirs \cup
                      { StageDir("drs4_baseline", ped[p].date, ped[p].pro, FALSE),
                        StageDir("drs4_baseline", ped[p].date, ped[p].pro, TRUE) }
    /\ ped' = [ped EXCEPT ![p].pc = "exists"]
    /\ UNCHANGED <<timeTree, pedTree, outcome, dirs, links, lastCall, inv, lastWriter,
                   r0Tree, summaries, configs, logTree, tim, started>>

\* pedestal script, lines 73-83 but for the question and the removal:
\* os.path.exists(output_file), then -y and SLURM_JOB_ID decide.
PedestalCheckOutput(p, yes, slurm_job) ==
    /\ ped[p].pc = "exists"
    /\ LET output_file == PedestalOutputFile(ped[p].date, ped[p].pro, ped[p].run)
       IN  ped' = [ped EXCEPT ![p] =
                     IF output_file \notin pedTree THEN [@ EXCEPT !.pc = "program"]
                     ELSE IF ~yes /\ ~slurm_job THEN [@ EXCEPT !.pc = "query"]
                     ELSE IF yes THEN [@ EXCEPT !.pc = "remove"]
                     ELSE PedEnded(Exit(1, "Output file exists already. Stop"))]
    /\ UNCHANGED <<timeTree, pedTree, outcome, dirs, links, lastCall, inv, lastWriter,
                   r0Tree, summaries, configs, stageDirs, logTree, tim, started>>

\* pedestal script, line 77: the operator answers query_yes_no.
PedestalAnswer(p, remove) ==
    /\ ped[p].pc = "query"
    /\ ped' = [ped EXCEPT ![p] =
                 IF remove THEN [@ EXCEPT !.pc = "remove"]
                 ELSE PedEnded(Exit(1, "Output file exists already. Stop"))]
    /\ UNCHANGED <<timeTree, pedTree, outcome, dirs, links, lastCall, inv, lastWriter,
                   r0Tree, summaries, configs, stageDirs, logTree, tim, started>>

\* pedestal script, line 80: os.remove(output_file).
PedestalRemove(p) ==
    /\ ped[p].pc = "remove"
    /\ LET output_file == PedestalOutputFile(ped[p].date, ped[p].pro, ped[p].run)
       IN  IF output_file \in pedTree
           THEN /\ pedTree' = pedTree \ {output_file}
                /\ ped' = [ped EXCEPT ![p].pc = "program"]
           ELSE /\ pedTree' = pedTree
                /\ ped' = [ped EXCEPT ![p] =
                             PedEnded(Raise("FileNotFoundError", "No such file or directory",
                                            <<>>))]
    /\ UNCHANGED <<timeTree, outcome, dirs, links, lastCall, inv, lastWriter,
                   r0Tree, summaries, configs, stageDirs, logTree, tim, started>>

\* pedestal script, lines 86-93: subprocess.run(cmd, check=True) is over.
\* lstchain_data_create_drs4_pedestal_file has written the output file and
\* ended with status 0, or it has failed.
PedestalProgramEnds(p, ok) ==
    /\ ped[p].pc = "program"
    /\ IF ok
       THEN /\ pedTree' = pedTree \cup
                            {PedestalOutputFile(ped[p].date, ped[p].pro, ped[p].run)}
            /\ ped' = [ped EXCEPT ![p].pc = "plot"]
       ELSE /\ pedTree' = pedTree
            /\ ped' = [ped EXCEPT ![p] =
                         PedEnded(Raise("CalledProcessError",
                                        "returned non-zero exit status", <<>>))]
    /\ UNCHANGED <<timeTree, outcome, dirs, links, lastCall, inv, lastWriter,
                   r0Tree, summaries, configs, stageDirs, logTree, tim, started>>

\* pedestal script, lines 96-100: the plots go to the log directory.
PedestalPlot(p) ==
    /\ ped[p].pc = "plot"
    /\ logTree' = logTree \cup {PedestalPlotFile(ped[p].date, ped[p].pro, ped[p].run)}
    /\ ped' = [ped EXCEPT ![p] = PedEnded(End)]
    /\ UNCHANGED <<timeTree, pedTree, outcome, dirs, links, lastCall, inv, lastWriter,
                   r0Tree, summaries, configs, stageDirs, tim, started>>

\* time script, lines 53-61: the script is started with --config
\* config_file; os.path.exists(config_file).
TimeCheckConfig(config_file) ==
    /\ tim.pc \in {"idle", "ended"}
    /\ started < MaxStarts
    /\ started' = started + 1
    /\ tim' = IF config_file \notin configs
              THEN TimEnded(Exit(1, "Config file does not exists."))
              ELSE [TimIdle EXCEPT !.pc = "input"]
    /\ UNCHANGED <<timeTree, pedTree, outcome, dirs, links, lastCall, inv, lastWriter,
                   r0Tree, summaries, configs, stageDirs, logTree, ped>>

\* time script, lines 63-74: it looks for the R0 file of the flat-field run
\* (-r run) and takes the date from its directory.
TimeFindInput(run) ==
    /\ tim.pc = "input"
    /\ LET file_list == Sorted(FlatFieldInputGlob(r0Tree, run, DefaultSubRun))
       IN  tim' = IF Len(file_list) = 0
                  THEN TimEnded(Exit(2, "Run not found"))
                  ELSE [tim EXCEPT !.pc = "outdir_exists", !.run = run,
                                   !.date = file_list[1].date]
    /\ UNCHANGED <<timeTree, pedTree, outcome, dirs, links, lastCall, inv, lastWriter,
                   r0Tree, summaries, configs, stageDirs, logTree, ped, started>>

\* time script, lines 76-78: os.path.exists(output_dir), for -v prod_id.
TimeCheckOutputDir(prod_id) ==
    /\ tim.pc = "outdir_exists"
    /\ tim' = [tim EXCEPT !.pro = prod_id,
                          !.pc = IF StageDir("drs4_time_sampling_from_FF", tim.date,
                                             prod_id, FALSE) \in stageDirs
                                 THEN "summary" ELSE "outdir_exists_again"]
    /\ UNCHANGED <<timeTree, pedTree, outcome, dirs, links, lastCall, inv, lastWriter,
                   r0Tree, summaries, configs, stageDirs, logTree, ped, started>>

\* time script, line 79: os.path.exists(output_dir), a second time.
TimeCheckOutputDirAgain ==
    /\ tim.pc = "outdir_exists_again"
    /\ tim' = [tim EXCEPT !.pc = IF StageDir("drs4_time_sampling_from_FF", tim.date,
                                             tim.pro, FALSE) \in stageDirs
                                 THEN "summary" ELSE "outdir_make"]
    /\ UNCHANGED <<timeTree, pedTree, outcome, dirs, links, lastCall, inv, lastWriter,
                   r0Tree, summaries, configs, stageDirs, logTree, ped, started>>

\* time script, lines 80-81: os.makedirs(output_dir, exist_ok=True).
TimeMakeOutputDir ==
    /\ tim.pc = "outdir_make"
    /\ stageDirs' = stageDirs \cup
                      {StageDir("drs4_time_sampling_from_FF", tim.date, tim.pro, FALSE)}
    /\ tim' = [tim EXCEPT !.pc = "summary"]
    /\ UNCHANGED <<timeTree, pedTree, outcome, dirs, links, lastCall, inv, lastWriter,
                   r0Tree, summaries, configs, logTree, ped, started>>

\* time script, lines 83-87: os.path.exists(run_summary_path).
TimeCheckSummary ==
    /\ tim.pc = "summary"
    /\ tim' = IF tim.date \notin summaries
              THEN TimEnded(Exit(3, "Night summary file does not exist"))
              ELSE [tim EXCEPT !.pc = "search"]
    /\ UNCHANGED <<timeTree, pedTree, outcome, dirs, links, lastCall, inv, lastWriter,
                   r0Tree, summaries, configs, stageDirs, logTree, ped, started>>

\* time script, lines 89-114: the pedestal file (-p ped_run, or none).
TimeSearchPedestal(ped_run) ==
    /\ tim.pc = "search"
    /\ LET found == StagePedestalFile(pedTree, logTree, tim.date, tim.pro, ped_run)
       IN  tim' = IF found.kind = "return"
                  THEN [tim EXCEPT !.pc = "program", !.pedestal_file = found.value]
                  ELSE TimEnded(found)
    /\ UNCHANGED <<timeTree, pedTree, outcome, dirs, links, lastCall, inv, lastWriter,
                   r0Tree, summaries, configs, stageDirs, logTree, ped, started>>

\* time script, lines 119-134: subprocess.run(cmd, check=True) is over.
\* lstchain_data_create_time_calibration_file, which reads the pedestal
\* file, has written the time file and ended with status 0, or it has failed.
TimeProgramEnds(ok) ==
    /\ tim.pc = "program"
    /\ ok => tim.pedestal_file \in StagePaths(pedTree, logTree)
    /\ IF ok
       THEN /\ timeTree' = timeTree \cup {TimeOutputFile(tim.date, tim.pro, tim.run)}
            /\ tim' = TimEnded(End)
       ELSE /\ timeTree' = timeTree
            /\ tim' = TimEnded(Raise("CalledProcessError",
                                     "returned non-zero exit status", <<>>))
    /\ UNCHANGED <<pedTree, outcome, dirs, links, lastCall, inv, lastWriter,
                   r0Tree, summaries, configs, stageDirs, logTree, ped, started>>

NextPipeline ==
    \/ \E p \in PedestalScripts :
          \/ \E run \in StageRuns : PedestalFindInput(p, run)
          \/ \E prod_id \in Pros : PedestalCheckOutputDir(p, prod_id)
          \/ PedestalMakeOutputDir(p)
          \/ PedestalCheckLogDir(p)
          \/ PedestalMakeLogDir(p)
          \/ \E yes \in BOOLEAN, slurm_job \in BOOLEAN : PedestalCheckOutput(p, yes, slurm_job)
          \/ \E remove \in BOOLEAN : PedestalAnswer(p, remove)
          \/ PedestalRemove(p)
          \/ \E ok \in BOOLEAN : PedestalProgramEnds(p, ok)
          \/ PedestalPlot(p)
    \/ \E config_file \in ConfigArgs : TimeCheckConfig(config_file)
    \/ \E run \in FlatFieldRuns : TimeFindInput(run)
    \/ \E prod_id \in Pros : TimeCheckOutputDir(prod_id)
    \/ TimeCheckOutputDirAgain
    \/ TimeMakeOutputDir
    \/ TimeCheckSummary
    \/ \E ped_run \in PedestalRunArgs : TimeSearchPedestal(ped_run)
    \/ \E ok \in BOOLEAN : TimeProgramEnds(ok)

SpecPipeline == InitPipeline /\ [][NextPipeline]_vars

(***************************************************************************)
(* Properties of the pipeline (SpecPipeline).                              *)
(***************************************************************************)
\* The files of run R under a production version that the pedestal stage
\* has written, and all the files it has written into <date>/<prod_id>.
WrittenForRun(prod_id, run) ==
    { p \in pedTree : p.pro = prod_id /\ p = PedestalOutputFile(p.date, prod_id, run) }

WrittenInto(date, prod_id) == { p \in pedTree : p.date = date /\ p.pro = prod_id }

\* The search of the time-calibration stage ends with this file.
Locates(file) == tim'.pc = "program" /\ tim'.pedestal_file = StagePath(file, <<>>)

\* C11: when the time-calibration stage searches with pedestal_run = R and
\* the pedestal stage has written the file of run R under the same P, the
\* search finds exactly that file; when it searches without pedestal_run,
\* for a flat-field run of date D, and there is only one pedestal file in
\* D/P, the search finds that one.
C11_TimeStageFindsPedestalFile ==
    [][ \A ped_run \in PedestalRunArgs :
          TimeSearchPedestal(ped_run)
          => /\ (ped_run # NoRun /\ WrittenForRun(tim.pro, ped_run) # {})
                => \E file \in WrittenForRun(tim.pro, ped_run) : Locates(file)
             /\ (ped_run = NoRun /\ Cardinality(WrittenInto(tim.date, tim.pro)) = 1)
                => \E file \in WrittenInto(tim.date, tim.pro) : Locates(file) ]_vars

====
